---- MODULE Spec2Model ----
(***************************************************************************)
(* A model of the Jungle Park site (src/app.py): the JSON collections, the *)
(* cookie session, and one action per HTTP route.  Requests are handled    *)
(* one at a time; an action is the whole request: before_request hook,     *)
(* login_required, with_language and the handler body with its save.       *)
(*                                                                         *)
(* Strings that the code strips, joins or formats are sequences of tokens: *)
(* " " is a whitespace character, any other token is a run of non-blank    *)
(* characters.  Passwords are sequences of single characters, so that      *)
(* len() is Len.  Role names and language codes are never taken apart and  *)
(* are plain strings; "None" stands for Python's None in those positions.  *)
(* Cyrillic literals of the source are transliterated.                     *)
(***************************************************************************)
EXTENDS Integers, Sequences, FiniteSets, TLC

VARIABLES settings, users, menu, programs, banners, whatsapp_log,
          session, nextId, clock, req, resp,
          inflight    \* the requests being handled by the server's threads

collections == <<settings, users, menu, programs, banners, whatsapp_log>>
vars == <<settings, users, menu, programs, banners, whatsapp_log,
          session, nextId, clock, req, resp, inflight>>

(* ------------------------------ bounds --------------------------------- *)
MaxLog == 2
MaxCreates == 1

(* ----------------------------- constants ------------------------------- *)
SUPPORTED_LANGUAGES == {"ru", "kk"}
DEFAULT_LANG == "ru"
MinPasswordLen == 6
FirstFreshId == 20
NoId == 0

(* --------------------------- dict helpers ------------------------------ *)
Has(d, k) == k \in DOMAIN d
Get(d, k, default) == IF k \in DOMAIN d THEN d[k] ELSE default
Put(d, k, v) == [x \in DOMAIN d \cup {k} |-> IF x = k THEN v ELSE d[x]]
Pop(d, k) == [x \in DOMAIN d \ {k} |-> d[x]]
Range(s) == {s[i] : i \in DOMAIN s}

(* --------------------------- string helpers ---------------------------- *)
RECURSIVE lstrip(_)
lstrip(s) == IF s # <<>> /\ Head(s) = " " THEN lstrip(Tail(s)) ELSE s

RECURSIVE rstrip(_)
rstrip(s) ==
    IF s # <<>> /\ s[Len(s)] = " " THEN rstrip(SubSeq(s, 1, Len(s) - 1)) ELSE s

\* no trimming at all
strip_nothing(s) == s

strip(s) == rstrip(lstrip(s))

\* sep.join(parts)
RECURSIVE join(_, _)
join(sep, parts) ==
    IF parts = <<>> THEN <<>>
    ELSE IF Len(parts) = 1 THEN parts[1]
    ELSE parts[1] \o sep \o join(sep, Tail(parts))

\* str(n) for a natural number, one token per digit
RECURSIVE str(_)
str(n) ==
    LET d == <<"0", "1", "2", "3", "4", "5", "6", "7", "8", "9">>[(n % 10) + 1]
    IN IF n < 10 THEN <<d>> ELSE str(n \div 10) \o <<d>>

startswith(s, prefix) ==
    Len(s) >= Len(prefix) /\ SubSeq(s, 1, Len(prefix)) = prefix

Contains(s, sub) ==
    \E i \in 1..(Len(s) + 1) :
        i + Len(sub) - 1 <= Len(s) /\ SubSeq(s, i, i + Len(sub) - 1) = sub

(* ------------------------------ passwords ------------------------------ *)
\* PBKDF2-HMAC-SHA256 as an ideal (collision-free) function of password and salt
pbkdf2_hmac(password, salt) == <<salt, password>>

b64encode(x) == [b64 |-> x]
b64decode(y) == y.b64

hash_password(password, salt) ==
    [salt_b64 |-> b64encode(salt),
     hash_b64 |-> b64encode(pbkdf2_hmac(password, salt))]

\* a stored hash without the ":" separator fails to split and never verifies
verify_password(stored_hash, password) ==
    IF ~(Has(stored_hash, "salt_b64") /\ Has(stored_hash, "hash_b64")) THEN FALSE
    ELSE LET salt == b64decode(stored_hash.salt_b64)
             expected == b64decode(stored_hash.hash_b64)
         IN pbkdf2_hmac(password, salt) = expected

\* user.get("password_hash", "")
NoHash == [raw |-> <<>>]

(* ------------------------------ to_int --------------------------------- *)
DigitValue(c) ==
    CASE c = "0" -> 0 [] c = "1" -> 1 [] c = "2" -> 2 [] c = "3" -> 3
      [] c = "4" -> 4 [] c = "5" -> 5 [] c = "6" -> 6 [] c = "7" -> 7
      [] c = "8" -> 8 [] c = "9" -> 9 [] OTHER -> -1

RECURSIVE int(_)
int(digits) ==
    IF Len(digits) = 1 THEN DigitValue(digits[1])
    ELSE 10 * int(SubSeq(digits, 1, Len(digits) - 1)) + DigitValue(digits[Len(digits)])

\* int() of a form string; ValueError (blank or a non-digit) gives the default
to_int(value, default) ==
    LET v == strip(value)
    IN IF v # <<>> /\ \A i \in DOMAIN v : DigitValue(v[i]) >= 0 THEN int(v) ELSE default

(* --------------------------- requests, responses ----------------------- *)
EmptyDict == [x \in {} |-> TRUE]

\* what is kept of the request being answered; its query string and body are
\* inputs of the action
Request(endpoint, method, path, args, body) ==
    [endpoint |-> endpoint, method |-> method, path |-> path]

Redirect(endpoint) ==
    [status |-> 302, kind |-> "redirect", target |-> endpoint, data |-> EmptyDict,
     flash |-> "None"]

Render(template, context, flashed) ==
    [status |-> 200, kind |-> "render", target |-> template, data |-> context,
     flash |-> flashed]

Flashed(response, key) == [response EXCEPT !.flash = key]

Json(status, payload) ==
    [status |-> status, kind |-> "json", target |-> "None", data |-> payload,
     flash |-> "None"]

\* abort(403) rendered by the forbidden error handler
forbidden == [status |-> 403, kind |-> "render", target |-> "errors/403.html",
              data |-> EmptyDict, flash |-> "None"]

\* an unrouted URL rendered by the not_found error handler
not_found == [status |-> 404, kind |-> "render", target |-> "errors/404.html",
              data |-> EmptyDict, flash |-> "None"]

(* ------------------------- request plumbing ---------------------------- *)
\* the hook without its /admin exemption
enforce_maintenance_everywhere(endpoint, path) ==
    IF endpoint = "static" THEN FALSE
    ELSE Get(settings, "maintenance", FALSE)
         /\ endpoint \notin {"maintenance", "admin_login"}

\* TRUE when the before_request hook answers with the redirect
enforce_maintenance(endpoint, path) ==
    IF endpoint = "static" THEN FALSE
    ELSE IF startswith(path, <<"/admin">>) THEN FALSE
    ELSE Get(settings, "maintenance", FALSE)
         /\ endpoint \notin {"maintenance", "admin_login"}

\* the session after with_language has run
with_language(sess, args) ==
    IF Has(args, "lang") /\ args.lang \in SUPPORTED_LANGUAGES
    THEN Put(sess, "lang", args.lang) ELSE sess

get_lang(sess) ==
    LET lang == Get(sess, "lang", DEFAULT_LANG)
    IN IF lang \in SUPPORTED_LANGUAGES THEN lang ELSE DEFAULT_LANG

\* index of the session's user in the list, 0 for None
current_user(sess, us) ==
    IF ~Has(sess, "username") \/ sess.username = <<>> THEN 0
    ELSE IF \E i \in DOMAIN us : us[i].username = sess.username
         THEN CHOOSE i \in DOMAIN us :
                /\ us[i].username = sess.username
                /\ \A j \in 1..(i - 1) : us[j].username # sess.username
         ELSE 0

\* the file is rewritten with the new entry alone
log_whatsapp_overwrites(entries, now, message) ==
    <<[timestamp |-> now, message |-> message]>>

log_whatsapp(entries, now, message) ==
    Append(entries, [timestamp |-> now, message |-> message])

\* {x["id"]: x for x in seq}.get(id): the last record with that id, 0 for None
Lookup(seq, id) ==
    IF \E i \in DOMAIN seq : seq[i].id = id
    THEN CHOOSE i \in DOMAIN seq :
            seq[i].id = id /\ \A j \in (i + 1)..Len(seq) : seq[j].id # id
    ELSE 0

(* ------------------------------ seed data ------------------------------ *)
Pw5 == <<"s", "h", "o", "r", "t">>
Pw6 == <<"s", "e", "c", "r", "e", "t">>
Pw7 == <<"l", "o", "n", "g", "e", "r", "1">>

Root == <<"root">>
Anna == <<"anna">>
Boris == <<"boris">>

Barmen == "Barmen"
Kassir == "Kassir"

SeedUsers ==
    << [id |-> 1, username |-> Root, password_hash |-> hash_password(Pw6, 1),
        role |-> "Administrator", must_change_password |-> TRUE],
       [id |-> 2, username |-> Anna, password_hash |-> hash_password(Pw6, 1),
        role |-> Barmen, must_change_password |-> FALSE],
       [id |-> 3, username |-> Boris, password_hash |-> hash_password(Pw6, 1),
        role |-> Kassir, must_change_password |-> FALSE] >>

SeedMenu ==
    << [id |-> 4, title |-> [ru |-> <<"chai">>, kk |-> <<"shai">>],
        description |-> [ru |-> <<>>, kk |-> <<>>], price |-> 500,
        available |-> TRUE],
       [id |-> 5, title |-> [ru |-> <<"sok">>, kk |-> <<"shyryn">>],
        description |-> [ru |-> <<>>, kk |-> <<>>], price |-> 300] >>

SeedPrograms ==
    << [id |-> 6, title |-> [ru |-> <<"piraty">>, kk |-> <<"qaraqshylar">>],
        description |-> [ru |-> <<>>, kk |-> <<>>], price |-> 9000,
        available |-> TRUE, costumes |-> << <<"pirat">> >>] >>

SeedBanners ==
    << [id |-> 8, type |-> "seasonal", title_ru |-> <<"leto">>, title_kk |-> <<>>,
        description_ru |-> <<>>, description_kk |-> <<>>, program_id |-> 6,
        cta_label_ru |-> <<"Zapisatsya">>, cta_label_kk |-> <<"Tirkelu">>],
       [id |-> 9, type |-> "discount", title_ru |-> <<"skidka">>,
        title_kk |-> <<"zhenildik">>, description_ru |-> <<>>,
        description_kk |-> <<>>, menu_item_id |-> 4] >>

DefaultSettings ==
    [ownerAuthorized |-> FALSE, cafeNumber |-> <<"+7", " ", "705", " ", "561", " ", "9337">>,
     cashierNumber |-> <<"+7", " ", "705", " ", "123", " ", "4567">>,
     maintenance |-> FALSE]

\* the server handles requests on threads; two are enough for an overlap
Workers == {1, 2}

\* one thread's request: where the handler is, the message it composed, the
\* list load_json returned, the list after append, and the response
Thread(pc, endpoint, message, loaded, entries, response) ==
    [pc |-> pc, endpoint |-> endpoint, message |-> message, loaded |-> loaded,
     entries |-> entries, resp |-> response]

Idle == Thread("idle", "None", <<>>, <<>>, <<>>, Render("None", EmptyDict, "None"))

Init ==
    /\ settings = DefaultSettings
    /\ users = SeedUsers
    /\ menu = SeedMenu
    /\ programs = SeedPrograms
    /\ banners = SeedBanners
    /\ whatsapp_log = <<>>
    /\ session = EmptyDict
    /\ nextId = FirstFreshId
    /\ clock = 0
    /\ req = Request("None", "GET", <<>>, EmptyDict, EmptyDict)
    /\ resp = Render("None", EmptyDict, "None")
    /\ inflight = [w \in Workers |-> Idle]

(* ------------------------------ public routes -------------------------- *)
NoWrite == UNCHANGED <<collections, nextId, clock>>

maintenance(args) ==
    /\ UNCHANGED inflight
    /\ req' = Request("maintenance", "GET", <<"/maintenance">>, args, EmptyDict)
    /\ IF enforce_maintenance("maintenance", <<"/maintenance">>)
       THEN resp' = Redirect("maintenance") /\ UNCHANGED session
       ELSE /\ session' = with_language(session, args)
            /\ resp' = Render("maintenance.html", EmptyDict, "None")
    /\ NoWrite

static ==
    /\ UNCHANGED inflight
    /\ req' = Request("static", "GET", <<"/static", "/style.css">>, EmptyDict, EmptyDict)
    /\ IF enforce_maintenance("static", <<"/static", "/style.css">>)
       THEN resp' = Redirect("maintenance")
       ELSE resp' = [status |-> 200, kind |-> "file", target |-> "style.css",
                     data |-> EmptyDict, flash |-> "None"]
    /\ UNCHANGED <<session>>
    /\ NoWrite

\* a URL that matches no route: request.endpoint is None
unrouted(path) ==
    /\ UNCHANGED inflight
    /\ req' = Request("None", "GET", path, EmptyDict, EmptyDict)
    /\ IF enforce_maintenance("None", path)
       THEN resp' = Redirect("maintenance")
       ELSE resp' = not_found
    /\ UNCHANGED <<session>>
    /\ NoWrite

\* a record without the flag counts as unavailable
IsAvailableIfFlagged(record) == Get(record, "available", FALSE)

IsAvailable(record) == Get(record, "available", TRUE)

home(args) ==
    /\ UNCHANGED inflight
    /\ req' = Request("home", "GET", <<"/">>, args, EmptyDict)
    /\ IF enforce_maintenance("home", <<"/">>)
       THEN resp' = Redirect("maintenance") /\ UNCHANGED session
       ELSE /\ session' = with_language(session, args)
            /\ resp' = Render("home.html",
                              [menu |-> SelectSeq(menu, IsAvailable),
                               programs |-> SelectSeq(programs, IsAvailable),
                               banners |-> banners], "None")
    /\ NoWrite

menu_view(args) ==
    /\ UNCHANGED inflight
    /\ req' = Request("menu", "GET", <<"/menu">>, args, EmptyDict)
    /\ IF enforce_maintenance("menu", <<"/menu">>)
       THEN resp' = Redirect("maintenance") /\ UNCHANGED session
       ELSE /\ session' = with_language(session, args)
            /\ resp' = Render("menu.html",
                              [menu |-> SelectSeq(menu, IsAvailable),
                               add_item |-> Get(args, "addItem", NoId)], "None")
    /\ NoWrite

programs_view(args) ==
    /\ UNCHANGED inflight
    /\ req' = Request("programs", "GET", <<"/programs">>, args, EmptyDict)
    /\ IF enforce_maintenance("programs", <<"/programs">>)
       THEN resp' = Redirect("maintenance") /\ UNCHANGED session
       ELSE /\ session' = with_language(session, args)
            /\ resp' = Render("programs.html",
                              [programs |-> SelectSeq(programs, IsAvailable)], "None")
    /\ NoWrite

(* --------------------------- public submissions ------------------------ *)
NL == <<"\n">>

\* "not total": the key is absent (None) or the number is 0
TotalMissing(data) == ~Has(data, "total") \/ data.total = 0

\* the message without the client's phone
order_message_no_phone(items, total, address, phone) ==
    <<"Novyi zakaz iz kafe Jungle Park:">> \o NL
    \o <<"Pozicii: ">> \o join(<<",", " ">>, items) \o NL
    \o <<"Obshaya summa: ">> \o str(total) \o <<" ", "tg">> \o NL
    \o <<"Adres: ">> \o address

order_message(items, total, address, phone) ==
    <<"Novyi zakaz iz kafe Jungle Park:">> \o NL
    \o <<"Pozicii: ">> \o join(<<",", " ">>, items) \o NL
    \o <<"Obshaya summa: ">> \o str(total) \o <<" ", "tg">> \o NL
    \o <<"Adres: ">> \o address \o NL
    \o <<"Telefon klienta: ">> \o phone

api_order(args, data) ==
    LET items == Get(data, "items", <<>>)
        address == strip(Get(data, "address", <<>>))
        phone == strip(Get(data, "phone", <<>>))
    IN
    /\ UNCHANGED inflight
    /\ req' = Request("api_order", "POST", <<"/api", "/order">>, args, data)
    /\ IF enforce_maintenance("api_order", <<"/api", "/order">>)
       THEN resp' = Redirect("maintenance") /\ UNCHANGED session /\ NoWrite
       ELSE /\ session' = with_language(session, args)
            /\ IF items = <<>> \/ TotalMissing(data) \/ address = <<>> \/ phone = <<>>
               THEN resp' = Json(400, [error |-> "missing_fields"]) /\ NoWrite
               ELSE /\ Len(whatsapp_log) < MaxLog
                    /\ whatsapp_log' = log_whatsapp(whatsapp_log, clock,
                            order_message(items, data.total, address, phone))
                    /\ clock' = clock + 1
                    /\ resp' = Json(200, [success |-> TRUE,
                                          recipient |-> settings.cafeNumber])
                    /\ UNCHANGED <<settings, users, menu, programs, banners, nextId>>

\* program.get("title", {}).get(lang, program.get("title", {}).get("ru", program_id))
program_title(program, lang, program_id) ==
    LET title == Get(program, "title", EmptyDict)
    IN IF Has(title, lang) THEN title[lang]
       ELSE IF Has(title, "ru") THEN title.ru ELSE str(program_id)

program_message(title, child_name, date, phone) ==
    <<"Novaya zayavka na programmu Jungle Park:">> \o NL
    \o <<"Programma: ">> \o title \o NL
    \o <<"Imya rebenka: ">> \o child_name \o NL
    \o <<"Data: ">> \o date \o NL
    \o <<"Kontakt: ">> \o phone

api_program_request(args, data) ==
    LET program_id == Get(data, "programId", NoId)
        name == strip(Get(data, "name", <<>>))
        child_name == strip(Get(data, "childName", <<>>))
        date == strip(Get(data, "date", <<>>))
        phone == strip(Get(data, "phone", <<>>))
        program == Lookup(programs, program_id)
        sess == with_language(session, args)
    IN
    /\ UNCHANGED inflight
    /\ req' = Request("api_program_request", "POST", <<"/api", "/program-request">>,
                      args, data)
    /\ IF enforce_maintenance("api_program_request", <<"/api", "/program-request">>)
       THEN resp' = Redirect("maintenance") /\ UNCHANGED session /\ NoWrite
       ELSE /\ session' = sess
            /\ IF program = 0 \/ name = <<>> \/ child_name = <<>> \/ date = <<>>
                  \/ phone = <<>>
               THEN resp' = Json(400, [error |-> "missing_fields"]) /\ NoWrite
               ELSE /\ Len(whatsapp_log) < MaxLog
                    /\ whatsapp_log' = log_whatsapp(whatsapp_log, clock,
                            program_message(
                                program_title(programs[program], get_lang(sess), program_id),
                                child_name, date, phone))
                    /\ clock' = clock + 1
                    /\ resp' = Json(200, [success |-> TRUE,
                                          recipient |-> settings.cashierNumber])
                    /\ UNCHANGED <<settings, users, menu, programs, banners, nextId>>

\* the lookup over banners of every type
IsAnyBanner(banner) == TRUE

IsSeasonal(banner) == Get(banner, "type", "None") = "seasonal"

\* banner.get(f"title_{lang}") or banner.get("title_ru", banner_id)
banner_title(banner, lang, banner_id) ==
    LET key == IF lang = "kk" THEN "title_kk" ELSE "title_ru"
    IN IF Get(banner, key, <<>>) # <<>> THEN banner[key]
       ELSE IF Has(banner, "title_ru") THEN banner.title_ru ELSE str(banner_id)

signup_message(title, child_name, age, phone, parent_name) ==
    <<"Novaya zayavka na programmu Jungle Park:">> \o NL
    \o <<"Programma: ">> \o title \o NL
    \o <<"Imya rebenka: ">> \o child_name \o NL
    \o <<"Vozrast: ">> \o age \o NL
    \o <<"Kontakt: ">> \o phone \o NL
    \o <<"FI roditelya: ">> \o parent_name

api_banner_signup(banner_id, args, data) ==
    LET child_name == strip(Get(data, "childName", <<>>))
        parent_name == strip(Get(data, "parentName", <<>>))
        age == strip(Get(data, "age", <<>>))
        phone == strip(Get(data, "phone", <<>>))
        seasonal == SelectSeq(banners, IsSeasonal)
        banner == Lookup(seasonal, banner_id)
        sess == with_language(session, args)
        path == <<"/api", "/banner-signup", "/">> \o str(banner_id)
    IN
    /\ UNCHANGED inflight
    /\ req' = Request("api_banner_signup", "POST", path, args, data)
    /\ IF enforce_maintenance("api_banner_signup", path)
       THEN resp' = Redirect("maintenance") /\ UNCHANGED session /\ NoWrite
       ELSE /\ session' = sess
            /\ IF child_name = <<>> \/ parent_name = <<>> \/ age = <<>> \/ phone = <<>>
               THEN resp' = Json(400, [error |-> "missing_fields"]) /\ NoWrite
               ELSE IF banner = 0
               THEN resp' = Json(404, [error |-> "unknown_banner"]) /\ NoWrite
               ELSE /\ Len(whatsapp_log) < MaxLog
                    /\ whatsapp_log' = log_whatsapp(whatsapp_log, clock,
                            signup_message(
                                banner_title(seasonal[banner], get_lang(sess), banner_id),
                                child_name, age, phone, parent_name))
                    /\ clock' = clock + 1
                    /\ resp' = Json(200, [success |-> TRUE,
                                          recipient |-> settings.cashierNumber])
                    /\ UNCHANGED <<settings, users, menu, programs, banners, nextId>>

(* ------------------------------ session / auth ------------------------ *)
\* the decorator aborting where it should redirect
login_required_aborts(role, sess, us) ==
    LET user == current_user(sess, us)
    IN IF user = 0 THEN "abort"
       ELSE IF role # "None" /\ us[user].role # role
               /\ us[user].role # "Administrator" THEN "abort"
       ELSE "ok"

\* the decorator's verdict: "login" (redirect), "abort" (403) or "ok"
login_required(role, sess, us) ==
    LET user == current_user(sess, us)
    IN IF user = 0 THEN "login"
       ELSE IF role # "None" /\ us[user].role # role
               /\ us[user].role # "Administrator" THEN "abort"
       ELSE "ok"

\* an uuid4 is available within the bound
CanCreate == nextId < FirstFreshId + MaxCreates

\* index of the first user the login loop accepts, 0 for none
LoginMatch(us, username, password) ==
    IF \E i \in DOMAIN us :
          us[i].username = username
          /\ verify_password(Get(us[i], "password_hash", NoHash), password)
    THEN CHOOSE i \in DOMAIN us :
            /\ us[i].username = username
            /\ verify_password(Get(us[i], "password_hash", NoHash), password)
            /\ \A j \in 1..(i - 1) :
                 ~(us[j].username = username
                   /\ verify_password(Get(us[j], "password_hash", NoHash), password))
    ELSE 0

admin_login(method, args, form) ==
    LET sess == with_language(session, args)
        username == strip(Get(form, "username", <<>>))
        password == Get(form, "password", <<>>)
        found == LoginMatch(users, username, password)
    IN
    /\ UNCHANGED inflight
    /\ req' = Request("admin_login", method, <<"/admin">>, args, form)
    /\ NoWrite
    /\ IF enforce_maintenance("admin_login", <<"/admin">>)
       THEN resp' = Redirect("maintenance") /\ UNCHANGED session
       ELSE IF method = "POST" /\ found # 0
       THEN /\ session' = Put(sess, "username", users[found].username)
            /\ resp' = IF Get(users[found], "must_change_password", FALSE)
                       THEN Flashed(Redirect("change_password"), "changePasswordPrompt")
                       ELSE Redirect("admin_dashboard")
       ELSE /\ session' = sess
            /\ resp' = Render("admin/login.html", EmptyDict,
                              IF method = "POST" THEN "invalidCredentials" ELSE "None")

admin_logout(args) ==
    /\ UNCHANGED inflight
    /\ req' = Request("admin_logout", "GET", <<"/admin", "/logout">>, args, EmptyDict)
    /\ NoWrite
    /\ IF enforce_maintenance("admin_logout", <<"/admin", "/logout">>)
       THEN resp' = Redirect("maintenance") /\ UNCHANGED session
       ELSE IF login_required("None", session, users) = "login"
       THEN resp' = Redirect("admin_login") /\ UNCHANGED session
       ELSE IF login_required("None", session, users) = "abort"
       THEN resp' = forbidden /\ session' = with_language(session, args)
       ELSE /\ session' = Pop(with_language(session, args), "username")
            /\ resp' = Redirect("admin_login")

admin_dashboard(args) ==
    /\ UNCHANGED inflight
    /\ req' = Request("admin_dashboard", "GET", <<"/admin", "/dashboard">>, args,
                      EmptyDict)
    /\ NoWrite
    /\ IF enforce_maintenance("admin_dashboard", <<"/admin", "/dashboard">>)
       THEN resp' = Redirect("maintenance") /\ UNCHANGED session
       ELSE IF login_required("None", session, users) = "login"
       THEN resp' = Redirect("admin_login") /\ UNCHANGED session
       ELSE IF login_required("None", session, users) = "abort"
       THEN resp' = forbidden /\ session' = with_language(session, args)
       ELSE /\ session' = with_language(session, args)
            /\ resp' = Render("admin/dashboard.html", EmptyDict, "None")

\* the loop without its username test: every record gets the new hash
SetPasswordOfAll(us, username, new_hash) ==
    [i \in DOMAIN us |->
        Put(Put(us[i], "password_hash", new_hash), "must_change_password", FALSE)]

\* the loop of change_password over the freshly loaded list
SetPassword(us, username, new_hash) ==
    [i \in DOMAIN us |->
        IF us[i].username = username
        THEN Put(Put(us[i], "password_hash", new_hash), "must_change_password", FALSE)
        ELSE us[i]]

change_password(method, args, form, salt) ==
    LET user == current_user(session, users)
        current_pwd == Get(form, "currentPassword", <<>>)
        new_pwd == Get(form, "newPassword", <<>>)
        confirm_pwd == Get(form, "confirmPassword", <<>>)
        page == Render("admin/change-password.html", EmptyDict, "None")
    IN
    /\ UNCHANGED inflight
    /\ req' = Request("change_password", method, <<"/admin", "/change-password">>,
                      args, form)
    /\ UNCHANGED <<settings, menu, programs, banners, whatsapp_log, nextId, clock>>
    /\ IF enforce_maintenance("change_password", <<"/admin", "/change-password">>)
       THEN resp' = Redirect("maintenance") /\ UNCHANGED <<session, users>>
       ELSE IF login_required("None", session, users) = "login"
       THEN resp' = Redirect("admin_login") /\ UNCHANGED <<session, users>>
       ELSE IF login_required("None", session, users) = "abort"
       THEN resp' = forbidden /\ session' = with_language(session, args)
            /\ UNCHANGED users
       ELSE /\ session' = with_language(session, args)
            /\ IF method # "POST"
               THEN resp' = page /\ UNCHANGED users
               ELSE IF ~verify_password(Get(users[user], "password_hash", NoHash),
                                        current_pwd)
               THEN resp' = Flashed(page, "currentPasswordInvalid") /\ UNCHANGED users
               ELSE IF Len(new_pwd) < MinPasswordLen
               THEN resp' = Flashed(page, "passwordTooShort") /\ UNCHANGED users
               ELSE IF new_pwd # confirm_pwd
               THEN resp' = Flashed(page, "passwordMismatch") /\ UNCHANGED users
               ELSE /\ users' = SetPassword(users, users[user].username,
                                            hash_password(new_pwd, salt))
                    /\ resp' = Flashed(Redirect("admin_dashboard"), "passwordUpdated")

(* ------------------------------ admin: users --------------------------- *)
\* the menu handler letting the cashier through as well
MenuRolesAndCashier == {"Administrator", Barmen, Kassir}

\* the roles each handler lets through
UsersRoles == {"Administrator"}
MenuRoles == {"Administrator", Barmen}
ProgramsRoles == {"Administrator", Kassir}
BannersRoles == {"Administrator"}
SettingsRoles == {"Administrator"}
MaintenanceRoles == {"Administrator"}

\* request.form.get(key) of a repeated field: its first value, or None
FirstValue(values) == IF values = <<>> THEN "None" ELSE values[1]

\* request.form.getlist(key)[-1] if the list is non-empty else None
LastValue(values) == IF values = <<>> THEN "None" ELSE values[Len(values)]

NewUser(id, username, password, salt, role) ==
    [id |-> id, username |-> username,
     password_hash |-> hash_password(password, salt), role |-> role,
     must_change_password |-> FALSE]

\* the update loop: the role of every record with that id, root excepted
UpdateRole(us, user_id, role) ==
    [i \in DOMAIN us |->
        IF us[i].id = user_id /\ us[i].username # Root
        THEN Put(us[i], "role", role) ELSE us[i]]

\* [u for u in users if u.get("id") != user_id and u.get("username") != "root"]
KeepAfterDelete(us, user_id) ==
    LET Keep(u) == u.id # user_id /\ u.username # Root
    IN SelectSeq(us, Keep)

\* create without the look for a record of the same name
admin_users_unchecked(method, args, form, salt) ==
    LET user == current_user(session, users)
        action == FirstValue(Get(form, "action", <<>>))
        username == strip(Get(form, "username", <<>>))
        password == Get(form, "password", <<>>)
        user_id == Get(form, "userId", NoId)
        page(flashed) == Render("admin/users.html", [users |-> users], flashed)
    IN
    /\ UNCHANGED inflight
    /\ req' = Request("admin_users", method, <<"/admin", "/users">>, args, form)
    /\ UNCHANGED <<settings, menu, programs, banners, whatsapp_log, clock>>
    /\ IF enforce_maintenance("admin_users", <<"/admin", "/users">>)
       THEN resp' = Redirect("maintenance") /\ UNCHANGED <<session, users, nextId>>
       ELSE IF login_required("None", session, users) = "login"
       THEN resp' = Redirect("admin_login") /\ UNCHANGED <<session, users, nextId>>
       ELSE IF login_required("None", session, users) = "abort"
       THEN resp' = forbidden /\ session' = with_language(session, args)
            /\ UNCHANGED <<users, nextId>>
       ELSE /\ session' = with_language(session, args)
            /\ IF users[user].role \notin UsersRoles
               THEN resp' = forbidden /\ UNCHANGED <<users, nextId>>
               ELSE IF method # "POST"
               THEN resp' = page("None") /\ UNCHANGED <<users, nextId>>
               ELSE IF action = "create"
               THEN IF username = <<>> \/ password = <<>>
                    THEN resp' = page("userMissingFields") /\ UNCHANGED <<users, nextId>>
                    ELSE /\ CanCreate
                         /\ users' = Append(users,
                                NewUser(nextId, username, password, salt,
                                        Get(form, "role", "Administrator")))
                         /\ nextId' = nextId + 1
                         /\ resp' = Flashed(Redirect("admin_users"), "userCreated")
               ELSE IF action = "update"
               THEN /\ users' = UpdateRole(users, user_id, Get(form, "role", "None"))
                    /\ resp' = Flashed(Redirect("admin_users"), "userUpdated")
                    /\ UNCHANGED nextId
               ELSE IF action = "delete"
               THEN /\ users' = KeepAfterDelete(users, user_id)
                    /\ resp' = Flashed(Redirect("admin_users"), "userDeleted")
                    /\ UNCHANGED nextId
               ELSE resp' = page("None") /\ UNCHANGED <<users, nextId>>

admin_users(method, args, form, salt) ==
    LET user == current_user(session, users)
        action == FirstValue(Get(form, "action", <<>>))
        username == strip(Get(form, "username", <<>>))
        password == Get(form, "password", <<>>)
        user_id == Get(form, "userId", NoId)
        page(flashed) == Render("admin/users.html", [users |-> users], flashed)
    IN
    /\ UNCHANGED inflight
    /\ req' = Request("admin_users", method, <<"/admin", "/users">>, args, form)
    /\ UNCHANGED <<settings, menu, programs, banners, whatsapp_log, clock>>
    /\ IF enforce_maintenance("admin_users", <<"/admin", "/users">>)
       THEN resp' = Redirect("maintenance") /\ UNCHANGED <<session, users, nextId>>
       ELSE IF login_required("None", session, users) = "login"
       THEN resp' = Redirect("admin_login") /\ UNCHANGED <<session, users, nextId>>
       ELSE IF login_required("None", session, users) = "abort"
       THEN resp' = forbidden /\ session' = with_language(session, args)
            /\ UNCHANGED <<users, nextId>>
       ELSE /\ session' = with_language(session, args)
            /\ IF users[user].role \notin UsersRoles
               THEN resp' = forbidden /\ UNCHANGED <<users, nextId>>
               ELSE IF method # "POST"
               THEN resp' = page("None") /\ UNCHANGED <<users, nextId>>
               ELSE IF action = "create"
               THEN IF username = <<>> \/ password = <<>>
                    THEN resp' = page("userMissingFields") /\ UNCHANGED <<users, nextId>>
                    ELSE IF \E i \in DOMAIN users : users[i].username = username
                    THEN resp' = page("userExists") /\ UNCHANGED <<users, nextId>>
                    ELSE /\ CanCreate
                         /\ users' = Append(users,
                                NewUser(nextId, username, password, salt,
                                        Get(form, "role", "Administrator")))
                         /\ nextId' = nextId + 1
                         /\ resp' = Flashed(Redirect("admin_users"), "userCreated")
               ELSE IF action = "update"
               THEN /\ users' = UpdateRole(users, user_id, Get(form, "role", "None"))
                    /\ resp' = Flashed(Redirect("admin_users"), "userUpdated")
                    /\ UNCHANGED nextId
               ELSE IF action = "delete"
               THEN /\ users' = KeepAfterDelete(users, user_id)
                    /\ resp' = Flashed(Redirect("admin_users"), "userDeleted")
                    /\ UNCHANGED nextId
               ELSE resp' = page("None") /\ UNCHANGED <<users, nextId>>

(* ------------------------------ admin: menu ---------------------------- *)
Localized(form, ru_key, kk_key) ==
    [ru |-> strip(Get(form, ru_key, <<>>)), kk |-> strip(Get(form, kk_key, <<>>))]

IsOn(form, key) == Get(form, key, "None") = "on"

NewMenuItem(id, form) ==
    [id |-> id,
     title |-> Localized(form, "title_ru", "title_kk"),
     description |-> Localized(form, "description_ru", "description_kk"),
     price |-> to_int(Get(form, "price", <<"0">>), 0),
     available |-> IsOn(form, "available")]

\* to_int(request.form.get("price", record.get("price", 0)))
UpdatedPrice(record, form) ==
    IF Has(form, "price") THEN to_int(form.price, 0) ELSE Get(record, "price", 0)

UpdateMenuItem(item, form) ==
    Put(Put(Put(Put(item,
        "title", Localized(form, "title_ru", "title_kk")),
        "description", Localized(form, "description_ru", "description_kk")),
        "price", UpdatedPrice(item, form)),
        "available", IsOn(form, "available"))

UpdateMenu(items, item_id, form) ==
    [i \in DOMAIN items |->
        IF items[i].id = item_id THEN UpdateMenuItem(items[i], form) ELSE items[i]]

\* [x for x in seq if x.get("id") != id]
DeleteById(seq, id) ==
    LET Keep(x) == x.id # id
    IN SelectSeq(seq, Keep)

admin_menu(method, args, form) ==
    LET user == current_user(session, users)
        action == LastValue(Get(form, "action", <<>>))
        item_id == Get(form, "item_id", NoId)
        done == Flashed(Redirect("admin_menu"), "menuUpdated")
    IN
    /\ UNCHANGED inflight
    /\ req' = Request("admin_menu", method, <<"/admin", "/menu">>, args, form)
    /\ UNCHANGED <<settings, users, programs, banners, whatsapp_log, clock>>
    /\ IF enforce_maintenance("admin_menu", <<"/admin", "/menu">>)
       THEN resp' = Redirect("maintenance") /\ UNCHANGED <<session, menu, nextId>>
       ELSE IF login_required("None", session, users) = "login"
       THEN resp' = Redirect("admin_login") /\ UNCHANGED <<session, menu, nextId>>
       ELSE IF login_required("None", session, users) = "abort"
       THEN resp' = forbidden /\ session' = with_language(session, args)
            /\ UNCHANGED <<menu, nextId>>
       ELSE /\ session' = with_language(session, args)
            /\ IF users[user].role \notin MenuRoles
               THEN resp' = forbidden /\ UNCHANGED <<menu, nextId>>
               ELSE IF method = "POST" /\ action = "create"
               THEN /\ CanCreate
                    /\ menu' = Append(menu, NewMenuItem(nextId, form))
                    /\ nextId' = nextId + 1
                    /\ resp' = done
               ELSE IF method = "POST" /\ action = "update"
               THEN /\ menu' = UpdateMenu(menu, item_id, form)
                    /\ resp' = done
                    /\ UNCHANGED nextId
               ELSE IF method = "POST" /\ action = "delete"
               THEN /\ menu' = DeleteById(menu, item_id)
                    /\ resp' = done
                    /\ UNCHANGED nextId
               ELSE /\ resp' = Render("admin/menu.html", [menu |-> menu], "None")
                    /\ UNCHANGED <<menu, nextId>>

(* ------------------------------ admin: programs ------------------------ *)
\* value.split(","): the pieces between "," tokens
RECURSIVE split(_)
split(s) ==
    IF \E i \in DOMAIN s : s[i] = ","
    THEN LET i == CHOOSE k \in DOMAIN s :
                    s[k] = "," /\ \A j \in 1..(k - 1) : s[j] # ","
         IN <<SubSeq(s, 1, i - 1)>> \o split(SubSeq(s, i + 1, Len(s)))
    ELSE <<s>>

\* [c.strip() for c in value.split(",") if c.strip()]
costumes(value) ==
    LET pieces == split(value)
        stripped == [i \in DOMAIN pieces |-> strip(pieces[i])]
        NonEmpty(c) == c # <<>>
    IN SelectSeq(stripped, NonEmpty)

NewProgram(id, form) ==
    [id |-> id,
     title |-> Localized(form, "title_ru", "title_kk"),
     description |-> Localized(form, "description_ru", "description_kk"),
     price |-> to_int(Get(form, "price", <<"0">>), 0),
     available |-> IsOn(form, "available"),
     costumes |-> costumes(Get(form, "costumes", <<>>))]

UpdateProgram(program, form) ==
    Put(UpdateMenuItem(program, form), "costumes", costumes(Get(form, "costumes", <<>>)))

UpdatePrograms(ps, program_id, form) ==
    [i \in DOMAIN ps |->
        IF ps[i].id = program_id THEN UpdateProgram(ps[i], form) ELSE ps[i]]

admin_programs(method, args, form) ==
    LET user == current_user(session, users)
        action == LastValue(Get(form, "action", <<>>))
        program_id == Get(form, "program_id", NoId)
        done == Flashed(Redirect("admin_programs"), "programUpdated")
    IN
    /\ UNCHANGED inflight
    /\ req' = Request("admin_programs", method, <<"/admin", "/programs">>, args, form)
    /\ UNCHANGED <<settings, users, menu, banners, whatsapp_log, clock>>
    /\ IF enforce_maintenance("admin_programs", <<"/admin", "/programs">>)
       THEN resp' = Redirect("maintenance") /\ UNCHANGED <<session, programs, nextId>>
       ELSE IF login_required("None", session, users) = "login"
       THEN resp' = Redirect("admin_login") /\ UNCHANGED <<session, programs, nextId>>
       ELSE IF login_required("None", session, users) = "abort"
       THEN resp' = forbidden /\ session' = with_language(session, args)
            /\ UNCHANGED <<programs, nextId>>
       ELSE /\ session' = with_language(session, args)
            /\ IF users[user].role \notin ProgramsRoles
               THEN resp' = forbidden /\ UNCHANGED <<programs, nextId>>
               ELSE IF method = "POST" /\ action = "create"
               THEN /\ CanCreate
                    /\ programs' = Append(programs, NewProgram(nextId, form))
                    /\ nextId' = nextId + 1
                    /\ resp' = done
               ELSE IF method = "POST" /\ action = "update"
               THEN /\ programs' = UpdatePrograms(programs, program_id, form)
                    /\ resp' = done
                    /\ UNCHANGED nextId
               ELSE IF method = "POST" /\ action = "delete"
               THEN /\ programs' = DeleteById(programs, program_id)
                    /\ resp' = done
                    /\ UNCHANGED nextId
               ELSE /\ resp' = Render("admin/programs.html", [programs |-> programs],
                                      "None")
                    /\ UNCHANGED <<programs, nextId>>

(* ------------------------------ admin: banners ------------------------- *)
\* value.strip() or default
StripOr(value, default) == IF strip(value) # <<>> THEN strip(value) ELSE default

CtaRu == <<"Zapisatsya">>
CtaKk == <<"Tirkelu">>

BannerTexts(banner, form) ==
    Put(Put(Put(Put(banner,
        "title_ru", strip(Get(form, "title_ru", <<>>))),
        "title_kk", strip(Get(form, "title_kk", <<>>))),
        "description_ru", strip(Get(form, "description_ru", <<>>))),
        "description_kk", strip(Get(form, "description_kk", <<>>)))

SeasonalFields(banner, form) ==
    Put(Put(Put(banner,
        "program_id", Get(form, "program_id", NoId)),
        "cta_label_ru", StripOr(Get(form, "cta_ru", <<>>), CtaRu)),
        "cta_label_kk", StripOr(Get(form, "cta_kk", <<>>), CtaKk))

NewBanner(id, form) ==
    LET banner_type == Get(form, "type", "None")
        banner == BannerTexts([id |-> id, type |-> banner_type], form)
    IN IF banner_type = "seasonal" THEN SeasonalFields(banner, form)
       ELSE IF banner_type = "discount"
       THEN Put(banner, "menu_item_id", Get(form, "menu_item_id", NoId))
       ELSE banner

UpdateBanner(banner, form) ==
    IF Get(banner, "type", "None") = "seasonal"
    THEN SeasonalFields(BannerTexts(banner, form), form)
    ELSE Put(BannerTexts(banner, form), "menu_item_id", Get(form, "menu_item_id", NoId))

UpdateBanners(bs, banner_id, form) ==
    [i \in DOMAIN bs |->
        IF bs[i].id = banner_id THEN UpdateBanner(bs[i], form) ELSE bs[i]]

admin_banners(method, args, form) ==
    LET user == current_user(session, users)
        action == LastValue(Get(form, "action", <<>>))
        banner_id == Get(form, "banner_id", NoId)
        done == Flashed(Redirect("admin_banners"), "bannersUpdated")
    IN
    /\ UNCHANGED inflight
    /\ req' = Request("admin_banners", method, <<"/admin", "/banners">>, args, form)
    /\ UNCHANGED <<settings, users, menu, programs, whatsapp_log, clock>>
    /\ IF enforce_maintenance("admin_banners", <<"/admin", "/banners">>)
       THEN resp' = Redirect("maintenance") /\ UNCHANGED <<session, banners, nextId>>
       ELSE IF login_required("None", session, users) = "login"
       THEN resp' = Redirect("admin_login") /\ UNCHANGED <<session, banners, nextId>>
       ELSE IF login_required("None", session, users) = "abort"
       THEN resp' = forbidden /\ session' = with_language(session, args)
            /\ UNCHANGED <<banners, nextId>>
       ELSE /\ session' = with_language(session, args)
            /\ IF users[user].role \notin BannersRoles
               THEN resp' = forbidden /\ UNCHANGED <<banners, nextId>>
               ELSE IF method = "POST" /\ action = "create"
               THEN /\ CanCreate
                    /\ banners' = Append(banners, NewBanner(nextId, form))
                    /\ nextId' = nextId + 1
                    /\ resp' = done
               ELSE IF method = "POST" /\ action = "update"
               THEN /\ banners' = UpdateBanners(banners, banner_id, form)
                    /\ resp' = done
                    /\ UNCHANGED nextId
               ELSE IF method = "POST" /\ action = "delete"
               THEN /\ banners' = DeleteById(banners, banner_id)
                    /\ resp' = done
                    /\ UNCHANGED nextId
               ELSE /\ resp' = Render("admin/banners.html",
                                      [banners |-> banners, programs |-> programs,
                                       menu |-> menu], "None")
                    /\ UNCHANGED <<banners, nextId>>

(* ------------------------------ admin: settings ------------------------ *)
admin_settings(method, args, form) ==
    LET user == current_user(session, users)
    IN
    /\ UNCHANGED inflight
    /\ req' = Request("admin_settings", method, <<"/admin", "/settings">>, args, form)
    /\ UNCHANGED <<users, menu, programs, banners, whatsapp_log, nextId, clock>>
    /\ IF enforce_maintenance("admin_settings", <<"/admin", "/settings">>)
       THEN resp' = Redirect("maintenance") /\ UNCHANGED <<session, settings>>
       ELSE IF login_required("None", session, users) = "login"
       THEN resp' = Redirect("admin_login") /\ UNCHANGED <<session, settings>>
       ELSE IF login_required("None", session, users) = "abort"
       THEN resp' = forbidden /\ session' = with_language(session, args)
            /\ UNCHANGED settings
       ELSE /\ session' = with_language(session, args)
            /\ IF users[user].role \notin SettingsRoles
               THEN resp' = forbidden /\ UNCHANGED settings
               ELSE IF method = "POST"
               THEN /\ settings' =
                         Put(Put(Put(settings,
                             "ownerAuthorized", IsOn(form, "ownerAuthorized")),
                             "cafeNumber", strip(Get(form, "cafeNumber", <<>>))),
                             "cashierNumber", strip(Get(form, "cashierNumber", <<>>)))
                    /\ resp' = Flashed(Redirect("admin_settings"), "settingsUpdated")
               ELSE /\ resp' = Render("admin/settings.html", [settings |-> settings],
                                      "None")
                    /\ UNCHANGED settings

admin_maintenance(method, args, form) ==
    LET user == current_user(session, users)
    IN
    /\ UNCHANGED inflight
    /\ req' = Request("admin_maintenance", method, <<"/admin", "/maintenance">>, args,
                      form)
    /\ UNCHANGED <<users, menu, programs, banners, whatsapp_log, nextId, clock>>
    /\ IF enforce_maintenance("admin_maintenance", <<"/admin", "/maintenance">>)
       THEN resp' = Redirect("maintenance") /\ UNCHANGED <<session, settings>>
       ELSE IF login_required("None", session, users) = "login"
       THEN resp' = Redirect("admin_login") /\ UNCHANGED <<session, settings>>
       ELSE IF login_required("None", session, users) = "abort"
       THEN resp' = forbidden /\ session' = with_language(session, args)
            /\ UNCHANGED settings
       ELSE /\ session' = with_language(session, args)
            /\ IF users[user].role \notin MaintenanceRoles
               THEN resp' = forbidden /\ UNCHANGED settings
               ELSE IF method = "POST"
               THEN /\ settings' = Put(settings, "maintenance", IsOn(form, "maintenance"))
                    /\ resp' = Flashed(Redirect("admin_maintenance"),
                                       "maintenanceUpdated")
               ELSE /\ resp' = Render("admin/maintenance.html",
                                      [settings |-> settings], "None")
                    /\ UNCHANGED settings

(* ------------------------ accounts: the requests tried ----------------- *)
Carol == <<"carol">>
Salts == {1, 2}

LoginForms ==
    {[username |-> Root, password |-> Pw6], [username |-> Root, password |-> Pw7],
     [username |-> <<" ">> \o Anna \o <<" ">>, password |-> Pw6],
     [username |-> Anna, password |-> Pw7], [username |-> Boris, password |-> Pw7]}

PasswordForms ==
    {[currentPassword |-> Pw6, newPassword |-> Pw7, confirmPassword |-> Pw7],
     [currentPassword |-> Pw7, newPassword |-> Pw7, confirmPassword |-> Pw7],
     [currentPassword |-> Pw6, newPassword |-> Pw5, confirmPassword |-> Pw5],
     [currentPassword |-> Pw6, newPassword |-> Pw7, confirmPassword |-> Pw6],
     [currentPassword |-> Pw5, newPassword |-> Pw7, confirmPassword |-> Pw7],
     [currentPassword |-> Pw6, newPassword |-> Pw6, confirmPassword |-> Pw6],
     [currentPassword |-> Pw6, newPassword |-> Pw7]}

UserCreateForms ==
    {[action |-> <<"create">>, username |-> u, password |-> Pw6, role |-> Kassir] :
        u \in {<<" ">>, Root, <<" ">> \o Carol}}
    \cup {[action |-> <<"create">>, username |-> Carol],
          [action |-> <<"create">>, username |-> Carol, password |-> Pw7]}

UserForms ==
    {[action |-> <<"update">>, userId |-> i, role |-> "Administrator"] :
        i \in {1, 2, FirstFreshId}}
    \cup {[action |-> <<"update">>, userId |-> 1], [action |-> <<"update">>, userId |-> 2]}
    \cup {[action |-> <<"delete">>, userId |-> i] : i \in {2, 99}}
    \cup {[action |-> <<"delete">>], [action |-> <<"refresh">>], EmptyDict}

NextAccounts ==
    \/ admin_login("GET", EmptyDict, EmptyDict)
    \/ \E f \in LoginForms : admin_login("POST", EmptyDict, f)
    \/ admin_logout(EmptyDict)
    \/ change_password("GET", EmptyDict, EmptyDict, 1)
    \/ \E f \in PasswordForms, salt \in Salts : change_password("POST", EmptyDict, f, salt)
    \/ admin_users("GET", EmptyDict, EmptyDict, 1)
    \/ \E f \in UserCreateForms, salt \in Salts : admin_users("POST", EmptyDict, f, salt)
    \/ \E f \in UserForms : admin_users("POST", EmptyDict, f, 1)

SpecAccounts == Init /\ [][NextAccounts]_vars

(* ------------------------ public site: the requests tried -------------- *)
LangArgs == {EmptyDict, [lang |-> "kk"], [lang |-> "en"]}
ApiArgs == {EmptyDict, [lang |-> "kk"]}
PublicLoginForms ==
    {[username |-> Root, password |-> Pw6], [username |-> Boris, password |-> Pw7]}

GoodOrder ==
    [items |-> << <<"chai">>, <<"sok">> >>, total |-> 800,
     address |-> <<" ", "Abaya", " ", "1", " ">>, phone |-> <<"+7701">>]

OrderData ==
    {GoodOrder, [GoodOrder EXCEPT !.items = << <<"chai">> >>, !.total = 500]}
    \cup {Pop(GoodOrder, k) : k \in DOMAIN GoodOrder}
    \cup {[GoodOrder EXCEPT !.items = <<>>], [GoodOrder EXCEPT !.total = 0],
          [GoodOrder EXCEPT !.address = <<" ", " ">>], [GoodOrder EXCEPT !.phone = <<>>]}

GoodProgramRequest ==
    [programId |-> 6, name |-> <<"Aigul">>, childName |-> <<" ", "Dana">>,
     date |-> <<"2025-06-01">>, phone |-> <<"+7701">>]

ProgramData ==
    {GoodProgramRequest, [GoodProgramRequest EXCEPT !.programId = 99],
     [GoodProgramRequest EXCEPT !.programId = 99, !.date = <<>>]}
    \cup {Pop(GoodProgramRequest, k) : k \in DOMAIN GoodProgramRequest}
    \cup {[GoodProgramRequest EXCEPT !.name = <<" ">>],
          [GoodProgramRequest EXCEPT !.childName = <<>>],
          [GoodProgramRequest EXCEPT !.date = <<" ">>],
          [GoodProgramRequest EXCEPT !.phone = <<" ", " ">>]}

GoodSignup ==
    [childName |-> <<"Dana">>, parentName |-> <<"Aigul", " ">>, age |-> <<"7">>,
     phone |-> <<"+7701">>]

SignupData ==
    {GoodSignup}
    \cup {Pop(GoodSignup, k) : k \in DOMAIN GoodSignup}
    \cup {[GoodSignup EXCEPT !.childName = <<" ">>],
          [GoodSignup EXCEPT !.parentName = <<>>],
          [GoodSignup EXCEPT !.age = <<" ">>],
          [GoodSignup EXCEPT !.phone = <<>>]}

BannerIds == {8, 9, 99}

UnroutedPaths == {<<"/nope">>, <<"/admin", "istrator">>}

MaintenanceForms == {[maintenance |-> "on"], [maintenance |-> "off"], EmptyDict}

NextPublic ==
    \/ maintenance(EmptyDict)
    \/ static
    \/ \E path \in UnroutedPaths : unrouted(path)
    \/ \E a \in LangArgs : home(a)
    \/ menu_view(EmptyDict)
    \/ programs_view(EmptyDict)
    \/ \E a \in ApiArgs, d \in OrderData : api_order(a, d)
    \/ \E a \in ApiArgs, d \in ProgramData : api_program_request(a, d)
    \/ \E id \in BannerIds, a \in ApiArgs, d \in SignupData : api_banner_signup(id, a, d)
    \/ admin_login("GET", EmptyDict, EmptyDict)
    \/ \E f \in PublicLoginForms : admin_login("POST", EmptyDict, f)
    \/ admin_dashboard(EmptyDict)
    \/ admin_maintenance("GET", EmptyDict, EmptyDict)
    \/ \E f \in MaintenanceForms : admin_maintenance("POST", EmptyDict, f)

SpecPublic == Init /\ [][NextPublic]_vars

(* ------------------------ menu: the requests tried --------------------- *)
MenuLoginForms ==
    {[username |-> Root, password |-> Pw6], [username |-> Anna, password |-> Pw6]}

MenuTexts ==
    [title_ru |-> <<" ", "Chai">>, title_kk |-> <<"Shai", " ">>,
     description_ru |-> <<>>, description_kk |-> <<>>, price |-> <<"5", "0", "0">>]

MenuForms ==
    {Put(Put(MenuTexts, "action", <<"create">>), "available", "on"),
     Put(MenuTexts, "action", <<"create">>),
     Put(Put(MenuTexts, "action", <<"delete", "create">>), "price", <<"x">>)}
    \cup {Put(Put(Put(MenuTexts, "action", <<"update">>), "item_id", i), "available", "on") :
            i \in {4, FirstFreshId}}
    \cup {Put(Put(MenuTexts, "action", <<"update">>), "item_id", i) :
            i \in {4, 5, FirstFreshId, 99}}
    \cup {[action |-> <<"delete">>, item_id |-> i] : i \in {4, FirstFreshId}}
    \cup {[action |-> <<"create", "delete">>, item_id |-> 5], [action |-> <<"delete">>],
          EmptyDict}

NextMenu ==
    \/ \E f \in MenuLoginForms : admin_login("POST", EmptyDict, f)
    \/ admin_logout(EmptyDict)
    \/ admin_menu("GET", EmptyDict, EmptyDict)
    \/ \E f \in MenuForms : admin_menu("POST", EmptyDict, f)
    \/ \E a \in {EmptyDict, [addItem |-> 4]} : menu_view(a)
    \/ home(EmptyDict)

SpecMenu == Init /\ [][NextMenu]_vars

(* ------------------------ admin panel: the requests tried -------------- *)
AdminLoginForms ==
    {[username |-> u, password |-> Pw6] : u \in {Root, Anna, Boris}}

AdminUserForms ==
    {[action |-> <<"delete">>, userId |-> 2], [action |-> <<"update">>, userId |-> 3]}

AdminMenuForms ==
    {[action |-> <<"delete">>, item_id |-> 5],
     Put(Put(MenuTexts, "action", <<"create">>), "available", "on")}

ProgramTexts ==
    [title_ru |-> <<"Piraty">>, title_kk |-> <<>>, description_ru |-> <<>>,
     description_kk |-> <<>>, price |-> <<"9", "0", "0", "0">>,
     costumes |-> <<"pirat", ",", " ", "popugai", " ", ",", ",">>]

AdminProgramForms ==
    {[action |-> <<"delete">>, program_id |-> 6],
     Put(Put(Put(ProgramTexts, "action", <<"update">>), "program_id", 6), "available", "on")}

AdminBannerForms ==
    {[action |-> <<"delete">>, banner_id |-> 9],
     [action |-> <<"update">>, banner_id |-> 8, title_ru |-> <<"leto">>, program_id |-> 6,
      cta_ru |-> <<" ">>]}

AdminSettingsForms ==
    {[ownerAuthorized |-> "on", cafeNumber |-> <<" ", "+7700">>,
      cashierNumber |-> <<"+7711">>]}

NextAdmin ==
    \/ admin_login("GET", EmptyDict, EmptyDict)
    \/ \E f \in AdminLoginForms : admin_login("POST", EmptyDict, f)
    \/ admin_logout(EmptyDict)
    \/ admin_dashboard(EmptyDict)
    \/ \E m \in {"GET", "POST"} :
          change_password(m, EmptyDict,
              [currentPassword |-> Pw6, newPassword |-> Pw7, confirmPassword |-> Pw6], 2)
    \/ admin_users("GET", EmptyDict, EmptyDict, 1)
    \/ \E f \in AdminUserForms : admin_users("POST", EmptyDict, f, 1)
    \/ admin_menu("GET", EmptyDict, EmptyDict)
    \/ \E f \in AdminMenuForms : admin_menu("POST", EmptyDict, f)
    \/ admin_programs("GET", EmptyDict, EmptyDict)
    \/ \E f \in AdminProgramForms : admin_programs("POST", EmptyDict, f)
    \/ admin_banners("GET", EmptyDict, EmptyDict)
    \/ \E f \in AdminBannerForms : admin_banners("POST", EmptyDict, f)
    \/ admin_settings("GET", EmptyDict, EmptyDict)
    \/ \E f \in AdminSettingsForms : admin_settings("POST", EmptyDict, f)
    \/ admin_maintenance("GET", EmptyDict, EmptyDict)
    \/ \E f \in {[maintenance |-> "on"]} : admin_maintenance("POST", EmptyDict, f)

SpecAdmin == Init /\ [][NextAdmin]_vars

(* ------------------ notification log: the requests tried --------------- *)
LogOrders == {GoodOrder, [GoodOrder EXCEPT !.phone = <<" ">>]}
LogProgramRequests == {GoodProgramRequest, [GoodProgramRequest EXCEPT !.programId = 99]}
LogSignups == {GoodSignup, Pop(GoodSignup, "age")}
LogBannerIds == {8, 9}
LogLoginForms == {[username |-> Root, password |-> Pw6]}
LogUserForms == {[action |-> <<"update">>, userId |-> 3, role |-> "Administrator"]}
LogMenuForms == {[action |-> <<"delete">>, item_id |-> 5]}
LogProgramForms == {[action |-> <<"delete">>, program_id |-> 6]}
LogBannerForms == {[action |-> <<"delete">>, banner_id |-> 9]}

NextLog ==
    \/ maintenance(EmptyDict)
    \/ static
    \/ unrouted(<<"/nope">>)
    \/ home(EmptyDict)
    \/ menu_view(EmptyDict)
    \/ programs_view(EmptyDict)
    \/ \E d \in LogOrders : api_order(EmptyDict, d)
    \/ \E d \in LogProgramRequests : api_program_request(EmptyDict, d)
    \/ \E id \in LogBannerIds, d \in LogSignups : api_banner_signup(id, EmptyDict, d)
    \/ \E f \in LogLoginForms : admin_login("POST", EmptyDict, f)
    \/ admin_logout(EmptyDict)
    \/ admin_dashboard(EmptyDict)
    \/ change_password("GET", EmptyDict, EmptyDict, 1)
    \/ \E f \in LogUserForms : admin_users("POST", EmptyDict, f, 1)
    \/ \E f \in LogMenuForms : admin_menu("POST", EmptyDict, f)
    \/ \E f \in LogProgramForms : admin_programs("POST", EmptyDict, f)
    \/ \E f \in LogBannerForms : admin_banners("POST", EmptyDict, f)
    \/ \E f \in AdminSettingsForms : admin_settings("POST", EmptyDict, f)
    \/ \E f \in {[maintenance |-> "on"], [maintenance |-> "off"]} :
          admin_maintenance("POST", EmptyDict, f)

SpecLog == Init /\ [][NextLog]_vars

(* ------------------ overlapping submissions, step by step -------------- *)
(* The same handlers as api_order and api_program_request, taken one       *)
(* statement group at a time so that two threads can interleave: the       *)
(* handler up to the call of log_whatsapp, then load_json and append,      *)
(* then save_json, then the return.  load_json and save_json are each one  *)
(* step: a save is a whole rewrite of the file.                            *)
OnlyThreads == UNCHANGED <<collections, session, nextId, clock, req, resp>>

\* api_order up to the call of log_whatsapp
order_begin(w, data) ==
    LET items == Get(data, "items", <<>>)
        address == strip(Get(data, "address", <<>>))
        phone == strip(Get(data, "phone", <<>>))
        answered(response) == Thread("returned", "api_order", <<>>, <<>>, <<>>, response)
    IN
    /\ inflight[w].pc = "idle"
    /\ inflight' = [inflight EXCEPT ![w] =
          IF enforce_maintenance("api_order", <<"/api", "/order">>)
          THEN answered(Redirect("maintenance"))
          ELSE IF items = <<>> \/ TotalMissing(data) \/ address = <<>> \/ phone = <<>>
          THEN answered(Json(400, [error |-> "missing_fields"]))
          ELSE Thread("composed", "api_order",
                      order_message(items, data.total, address, phone),
                      <<>>, <<>>, inflight[w].resp)]
    /\ OnlyThreads

\* api_program_request up to the call of log_whatsapp
program_begin(w, data) ==
    LET program_id == Get(data, "programId", NoId)
        name == strip(Get(data, "name", <<>>))
        child_name == strip(Get(data, "childName", <<>>))
        date == strip(Get(data, "date", <<>>))
        phone == strip(Get(data, "phone", <<>>))
        program == Lookup(programs, program_id)
        answered(response) ==
            Thread("returned", "api_program_request", <<>>, <<>>, <<>>, response)
    IN
    /\ inflight[w].pc = "idle"
    /\ inflight' = [inflight EXCEPT ![w] =
          IF enforce_maintenance("api_program_request", <<"/api", "/program-request">>)
          THEN answered(Redirect("maintenance"))
          ELSE IF program = 0 \/ name = <<>> \/ child_name = <<>> \/ date = <<>>
                  \/ phone = <<>>
          THEN answered(Json(400, [error |-> "missing_fields"]))
          ELSE Thread("composed", "api_program_request",
                      program_message(
                          program_title(programs[program], get_lang(session), program_id),
                          child_name, date, phone),
                      <<>>, <<>>, inflight[w].resp)]
    /\ OnlyThreads

\* log_whatsapp: entries = load_json(log_path, []); entries.append({...})
log_load(w) ==
    /\ inflight[w].pc = "composed"
    /\ clock < MaxLog
    /\ inflight' = [inflight EXCEPT ![w] =
          [@ EXCEPT !.pc = "loaded", !.loaded = whatsapp_log,
                    !.entries = log_whatsapp(whatsapp_log, clock,
                                             inflight[w].message)]]
    /\ clock' = clock + 1
    /\ UNCHANGED <<collections, session, nextId, req, resp>>

\* the file is extended under a lock instead of rewritten from the loaded list
log_save_locked(w) ==
    /\ inflight[w].pc = "loaded"
    /\ whatsapp_log' =
          Append(whatsapp_log, inflight[w].entries[Len(inflight[w].entries)])
    /\ inflight' = [inflight EXCEPT ![w].pc = "saved"]
    /\ UNCHANGED <<settings, users, menu, programs, banners, session, nextId, clock,
                   req, resp>>

\* log_whatsapp: save_json(log_path, entries)
log_save(w) ==
    /\ inflight[w].pc = "loaded"
    /\ whatsapp_log' = inflight[w].entries
    /\ inflight' = [inflight EXCEPT ![w].pc = "saved"]
    /\ UNCHANGED <<settings, users, menu, programs, banners, session, nextId, clock,
                   req, resp>>

\* return jsonify({"success": True, "recipient": settings.get(...)}); no step
\* here writes settings, so when the handler read them makes no difference
submission_return(w) ==
    /\ inflight[w].pc = "saved"
    /\ inflight' = [inflight EXCEPT ![w] =
          [@ EXCEPT !.pc = "returned",
                    !.resp = Json(200,
                        [success |-> TRUE,
                         recipient |-> IF inflight[w].endpoint = "api_order"
                                       THEN settings.cafeNumber
                                       ELSE settings.cashierNumber])]]
    /\ OnlyThreads

\* the response leaves the server and the thread is free again
respond(w) ==
    /\ inflight[w].pc = "returned"
    /\ req' = Request(inflight[w].endpoint, "POST", <<"/api">>, EmptyDict, EmptyDict)
    /\ resp' = inflight[w].resp
    /\ inflight' = [inflight EXCEPT ![w] = Idle]
    /\ UNCHANGED <<collections, session, nextId, clock>>

RaceOrders == {GoodOrder, [GoodOrder EXCEPT !.items = << <<"chai">> >>, !.total = 500],
               [GoodOrder EXCEPT !.total = 0]}
RaceProgramRequests == {GoodProgramRequest, Pop(GoodProgramRequest, "date")}

NextRace ==
    \/ \E w \in Workers, d \in RaceOrders : order_begin(w, d)
    \/ \E w \in Workers, d \in RaceProgramRequests : program_begin(w, d)
    \/ \E w \in Workers : log_load(w)
    \/ \E w \in Workers : log_save(w)
    \/ \E w \in Workers : submission_return(w)
    \/ \E w \in Workers : respond(w)

SpecRace == Init /\ [][NextRace]_vars

(* ------------------------------ claims: accounts ----------------------- *)
RootRecords(us) == {us[i] : i \in {k \in DOMAIN us : us[k].username = Root}}

\* C1: an admin_users POST keeps every record named "root" that was there
\* before it, with the role it had.
C1_RootSurvivesUsersPost ==
    [][(req'.endpoint = "admin_users" /\ req'.method = "POST")
        => \A r \in RootRecords(users) :
             \E q \in RootRecords(users') : q.id = r.id /\ q.role = r.role]_vars

\* C9: a change-password request rewrites the users collection exactly when it
\* is a POST of a logged-in user whose current password verifies, whose new
\* password has at least 6 characters and whose confirmation equals it; then
\* the caller's record alone changes: its hash verifies the new password and
\* its must-change flag is cleared.  Otherwise the collection is unchanged.
C9_Accepted(method, form) ==
    LET user == current_user(session, users)
    IN /\ method = "POST"
       /\ user # 0
       /\ verify_password(users[user].password_hash, Get(form, "currentPassword", <<>>))
       /\ Len(Get(form, "newPassword", <<>>)) >= 6
       /\ Get(form, "confirmPassword", <<>>) = Get(form, "newPassword", <<>>)

C9_CallerUpdated(form) ==
    LET user == current_user(session, users)
    IN /\ Len(users') = Len(users)
       /\ \A i \in DOMAIN users : i # user => users'[i] = users[i]
       /\ verify_password(users'[user].password_hash, form.newPassword)
       /\ users'[user].must_change_password = FALSE
       /\ users'[user].id = users[user].id
       /\ users'[user].username = users[user].username
       /\ users'[user].role = users[user].role

C9_ChangePassword ==
    [][req'.endpoint = "change_password" =>
       \A method \in {"GET", "POST"}, form \in PasswordForms \cup {EmptyDict},
          salt \in Salts :
          change_password(method, EmptyDict, form, salt)
             => IF C9_Accepted(method, form) THEN C9_CallerUpdated(form)
                ELSE users' = users]_vars

\* a password was changed: the caller's record verifies the new password and
\* not the old one, and another record still carries its seed hash
C9_Witness ==
    /\ req.endpoint = "change_password"
    /\ resp.flash = "passwordUpdated"
    /\ \E i, j \in DOMAIN users :
          /\ i # j
          /\ users[i].username = session.username
          /\ verify_password(users[i].password_hash, Pw7)
          /\ ~verify_password(users[i].password_hash, Pw6)
          /\ users[i].must_change_password = FALSE
          /\ users[j].password_hash = hash_password(Pw6, 1)


(* ------------------------------ claims: public site -------------------- *)
MaintenanceOn == Get(settings, "maintenance", FALSE)
AdminPath(path) == startswith(path, <<"/admin">>)
MaintenancePage == Redirect("maintenance")

\* C4: with the maintenance flag set, a request outside /admin that is neither
\* a static file nor the maintenance page is redirected to the maintenance page
\* and its handler does not run (collections, log and session stay as they
\* were); a request under /admin is never answered by that redirect, and a
\* login with valid credentials still opens a session.
C4_MaintenanceGate ==
    [][MaintenanceOn =>
        /\ (~AdminPath(req'.path) /\ req'.endpoint \notin {"static", "maintenance"})
              => /\ resp' = MaintenancePage
                 /\ UNCHANGED <<collections, session, nextId, clock>>
        /\ AdminPath(req'.path) => resp' # MaintenancePage
        /\ \A f \in PublicLoginForms :
              (/\ req'.endpoint = "admin_login"
               /\ LoginMatch(users, strip(f.username), f.password) # 0
               /\ admin_login("POST", EmptyDict, f))
              => /\ resp'.status = 302
                 /\ resp'.target \in {"admin_dashboard", "change_password"}
                 /\ session'.username = strip(f.username)]_vars

\* an order was turned away by the gate while the flag is set
C4_Witness ==
    /\ MaintenanceOn
    /\ req.endpoint = "api_order"
    /\ resp = MaintenancePage
    /\ whatsapp_log = <<>>

LogGrewByOne ==
    /\ Len(whatsapp_log') = Len(whatsapp_log) + 1
    /\ SubSeq(whatsapp_log', 1, Len(whatsapp_log)) = whatsapp_log

LastMessage(entries) == entries[Len(entries)].message

Success(recipient) == Json(200, [success |-> TRUE, recipient |-> recipient])
MissingFields == Json(400, [error |-> "missing_fields"])

\* the field is absent or consists of whitespace only
Blank(data, key) ==
    ~Has(data, key) \/ \A i \in DOMAIN data[key] : data[key][i] = " "

\* t is s without its leading and trailing whitespace
IsTrimmed(t, s) ==
    \E i \in 1..(Len(s) + 1), j \in 0..Len(s) :
        /\ t = SubSeq(s, i, j)
        /\ \A k \in 1..(i - 1) : s[k] = " "
        /\ \A k \in (j + 1)..Len(s) : s[k] = " "
        /\ t # <<>> => (t[1] # " " /\ t[Len(t)] # " ")

\* the message contains the field's value, trimmed
ContainsTrimmed(message, s) ==
    \E i \in 1..(Len(s) + 1), j \in 0..Len(s) :
        IsTrimmed(SubSeq(s, i, j), s) /\ Contains(message, SubSeq(s, i, j))

C5_OrderLogged(data) ==
    LET message == LastMessage(whatsapp_log')
    IN /\ resp' = Success(settings.cafeNumber)
       /\ LogGrewByOne
       /\ \A i \in DOMAIN data.items : Contains(message, data.items[i])
       /\ Contains(message, str(data.total))
       /\ ContainsTrimmed(message, data.address)
       /\ ContainsTrimmed(message, data.phone)

\* C5 as stated: an order with non-empty items, a total (the key is present),
\* and non-blank address and phone, with maintenance off, succeeds towards the
\* cafe number and appends exactly one entry that contains the submitted data.
C5_Original ==
    [][req'.endpoint = "api_order" =>
       \A d \in OrderData :
          (/\ ~MaintenanceOn
           /\ Get(d, "items", <<>>) # <<>> /\ Has(d, "total")
           /\ ~Blank(d, "address") /\ ~Blank(d, "phone"))
          => \A a \in ApiArgs : api_order(a, d) => C5_OrderLogged(d)]_vars

\* C5 amended: the same for an order whose total is present and not zero.
C5_OrderAppendsOneEntry ==
    [][req'.endpoint = "api_order" =>
       \A d \in OrderData :
          (/\ ~MaintenanceOn
           /\ Get(d, "items", <<>>) # <<>> /\ Has(d, "total") /\ d.total # 0
           /\ ~Blank(d, "address") /\ ~Blank(d, "phone"))
          => \A a \in ApiArgs : api_order(a, d) => C5_OrderLogged(d)]_vars

\* a two-item order was logged behind an earlier entry
C5_Witness ==
    /\ req.endpoint = "api_order"
    /\ resp = Success(settings.cafeNumber)
    /\ Len(whatsapp_log) = 2
    /\ Contains(LastMessage(whatsapp_log), <<"chai">>)
    /\ Contains(LastMessage(whatsapp_log), <<"sok">>)
    /\ Contains(LastMessage(whatsapp_log), <<"8", "0", "0">>)
    /\ Contains(LastMessage(whatsapp_log), <<"Abaya", " ", "1">>)

\* C6: a submission to any of the three endpoints with a required field absent
\* or blank after trimming (maintenance off, so that the handler runs) is
\* answered 400 missing_fields and leaves the log as it was; for the banner
\* signup whatever the banner id.
C6_Rejected == resp' = MissingFields /\ whatsapp_log' = whatsapp_log

C6_MissingFieldsRejected ==
    [][(~MaintenanceOn /\ ~C6_Rejected) =>
        /\ req'.endpoint = "api_order" =>
              \A d \in OrderData :
                  (Get(d, "items", <<>>) = <<>> \/ ~Has(d, "total")
                   \/ Blank(d, "address") \/ Blank(d, "phone"))
                  => \A a \in ApiArgs : ~api_order(a, d)
        /\ req'.endpoint = "api_program_request" =>
              \A d \in ProgramData :
                  (~Has(d, "programId") \/ Blank(d, "name") \/ Blank(d, "childName")
                   \/ Blank(d, "date") \/ Blank(d, "phone"))
                  => \A a \in ApiArgs : ~api_program_request(a, d)
        /\ req'.endpoint = "api_banner_signup" =>
              \A d \in SignupData :
                  (Blank(d, "childName") \/ Blank(d, "parentName")
                   \/ Blank(d, "age") \/ Blank(d, "phone"))
                  => \A id \in BannerIds, a \in ApiArgs : ~api_banner_signup(id, a, d)]_vars

\* an incomplete signup to the existing seasonal banner was rejected
C6_Witness ==
    /\ req.endpoint = "api_banner_signup"
    /\ req.path = <<"/api", "/banner-signup", "/", "8">>
    /\ resp = MissingFields
    /\ ~MaintenanceOn

UnknownBanner == Json(404, [error |-> "unknown_banner"])

NotSeasonal(id) == ~\E i \in DOMAIN banners : banners[i].id = id /\ banners[i].type = "seasonal"

\* C7 as stated: every signup to an id that is not a seasonal banner's is
\* answered 404 unknown_banner and appends nothing.
C7_Answered == resp' = UnknownBanner /\ whatsapp_log' = whatsapp_log

C7_Original ==
    [][(req'.endpoint = "api_banner_signup" /\ ~MaintenanceOn /\ ~C7_Answered) =>
       \A id \in BannerIds :
          NotSeasonal(id)
          => \A d \in SignupData, a \in ApiArgs : ~api_banner_signup(id, a, d)]_vars

\* C7 amended: a signup with all four fields non-blank to an id that is not a
\* seasonal banner's is answered 404 unknown_banner and appends nothing.
C7_UnknownBanner ==
    [][(req'.endpoint = "api_banner_signup" /\ ~MaintenanceOn /\ ~C7_Answered) =>
       \A id \in BannerIds :
          NotSeasonal(id)
          => \A d \in SignupData :
                (~Blank(d, "childName") /\ ~Blank(d, "parentName")
                 /\ ~Blank(d, "age") /\ ~Blank(d, "phone"))
                => \A a \in ApiArgs : ~api_banner_signup(id, a, d)]_vars

\* a complete signup to the discount banner's id was answered unknown_banner
C7_Witness ==
    /\ req.endpoint = "api_banner_signup"
    /\ req.path = <<"/api", "/banner-signup", "/", "9">>
    /\ resp = UnknownBanner
    /\ \E i \in DOMAIN banners : banners[i].id = 9 /\ banners[i].type = "discount"

\* C8: a program request naming no stored program, its other fields present, is
\* answered with status 404 and appends nothing.
C8_UnknownProgramIs404 ==
    [][req'.endpoint = "api_program_request" =>
       \A d \in ProgramData :
          (/\ ~MaintenanceOn
           /\ Has(d, "programId") /\ Lookup(programs, d.programId) = 0
           /\ ~Blank(d, "name") /\ ~Blank(d, "childName")
           /\ ~Blank(d, "date") /\ ~Blank(d, "phone"))
          => \A a \in ApiArgs : api_program_request(a, d)
                => resp'.status = 404 /\ whatsapp_log' = whatsapp_log]_vars

(* ------------------------------ claims: admin panel -------------------- *)
\* the session names a record of the users collection
SessionUsers ==
    IF Has(session, "username")
    THEN {i \in DOMAIN users : users[i].username = session.username} ELSE {}

\* the allowed roles of the role-restricted routes, as the claim lists them
AllowedRoles(endpoint) ==
    CASE endpoint = "admin_menu" -> {"Administrator", "Barmen"}
      [] endpoint = "admin_programs" -> {"Administrator", "Kassir"}
      [] endpoint \in {"admin_users", "admin_banners", "admin_settings",
                       "admin_maintenance"} -> {"Administrator"}

RestrictedRoutes ==
    {"admin_users", "admin_banners", "admin_settings", "admin_maintenance",
     "admin_menu", "admin_programs"}

\* C2: on a role-restricted route a logged-in user whose role is outside the
\* route's allowed set is answered 403, on GET and on POST, and no collection
\* changes; a logged-in Administrator is never answered 403 there.
C2_RoleEnforcement ==
    [][req'.endpoint \in RestrictedRoutes =>
       \A i \in SessionUsers :
          /\ users[i].role \notin AllowedRoles(req'.endpoint)
                => resp'.status = 403 /\ UNCHANGED collections
          /\ users[i].role = "Administrator" => resp'.status # 403]_vars

\* the cashier's menu POST was refused and the menu is still the seed menu
C2_Witness ==
    /\ req.endpoint = "admin_menu"
    /\ req.method = "POST"
    /\ resp.status = 403
    /\ Has(session, "username") /\ session.username = Boris
    /\ \E i \in DOMAIN users : users[i].username = Boris /\ users[i].role = "Kassir"
    /\ menu = SeedMenu

LoginRequiredRoutes ==
    RestrictedRoutes \cup {"admin_logout", "change_password", "admin_dashboard"}

\* C3: a request to a login_required route whose session has no username, or a
\* username of no record of the users collection, is redirected to the login
\* page and changes no collection (nor the session).
C3_LoginRedirect ==
    [][(req'.endpoint \in LoginRequiredRoutes /\ SessionUsers = {})
        => /\ resp' = Redirect("admin_login")
           /\ UNCHANGED <<collections, session>>]_vars

\* a POST to the users page under the session of a deleted user was redirected
C3_Witness ==
    /\ req.endpoint = "admin_users"
    /\ req.method = "POST"
    /\ resp = Redirect("admin_login")
    /\ Has(session, "username")
    /\ ~\E i \in DOMAIN users : users[i].username = session.username

(* ------------------------------ claims: menu --------------------------- *)
Shown(item) == ~Has(item, "available") \/ item.available = TRUE

\* view lists exactly the shown records of stored, once each, in stored order
ShowsExactly(view, stored) ==
    /\ \A k \in DOMAIN view : Shown(view[k])
    /\ \E pos \in [DOMAIN view -> DOMAIN stored] :
          /\ \A k \in DOMAIN view : stored[pos[k]] = view[k]
          /\ \A k1, k2 \in DOMAIN view : k1 < k2 => pos[k1] < pos[k2]
          /\ \A i \in DOMAIN stored : Shown(stored[i]) => \E k \in DOMAIN view : pos[k] = i

\* C10: the menu and home views list exactly the stored menu items whose
\* availability flag is true or absent, in stored order; a create with the
\* availability box ticked stores an item that is listed, and an update without
\* the box leaves no item of that id listed.
C10_PublicMenu ==
    [][/\ (req'.endpoint \in {"menu", "home"} /\ resp'.kind = "render")
            => ShowsExactly(resp'.data.menu, menu')
       /\ req'.endpoint = "admin_menu" =>
            \A f \in MenuForms :
               (/\ resp' = Flashed(Redirect("admin_menu"), "menuUpdated")
                /\ admin_menu("POST", EmptyDict, f))
               => /\ (LastValue(Get(f, "action", <<>>)) = "create"
                      /\ Get(f, "available", "None") = "on")
                        => \E i \in DOMAIN menu' :
                              menu'[i].id = nextId /\ Shown(menu'[i])
                  /\ (LastValue(Get(f, "action", <<>>)) = "update"
                      /\ Get(f, "available", "None") # "on")
                        => \A i \in DOMAIN menu' :
                              menu'[i].id = Get(f, "item_id", NoId) => ~Shown(menu'[i])]_vars

\* the menu view lists the item created as available and the seed item without
\* the flag, and not the stored seed item that an update made unavailable
C10_Witness ==
    /\ req.endpoint = "menu"
    /\ resp.kind = "render"
    /\ \E k \in DOMAIN resp.data.menu : resp.data.menu[k].id = FirstFreshId
    /\ \E k \in DOMAIN resp.data.menu : resp.data.menu[k].id = 5
    /\ \E i \in DOMAIN menu : menu[i].id = 4
    /\ ~\E k \in DOMAIN resp.data.menu : resp.data.menu[k].id = 4

(* ----------------------------------------------------------------------- *)
(* C11: with requests handled one at a time the notification log is        *)
(* append-only.  Every step leaves the previous log as a prefix of the new *)
(* one; the log changes only in a step of api_order, api_program_request   *)
(* or api_banner_signup that answers success, and then by exactly one      *)
(* entry; a step of an admin route leaves it as it was.                    *)
(* ----------------------------------------------------------------------- *)
IsPrefix(s, t) == Len(s) <= Len(t) /\ SubSeq(t, 1, Len(s)) = s

SubmissionRoutes == {"api_order", "api_program_request", "api_banner_signup"}

AdminRoutes ==
    {"admin_login", "admin_logout", "change_password", "admin_dashboard", "admin_users",
     "admin_menu", "admin_programs", "admin_banners", "admin_settings",
     "admin_maintenance"}

SubmissionSucceeded ==
    /\ req'.endpoint \in SubmissionRoutes
    /\ resp'.status = 200
    /\ Has(resp'.data, "success") /\ resp'.data.success = TRUE

C11_LogAppendOnly ==
    [][/\ IsPrefix(whatsapp_log, whatsapp_log')
       /\ whatsapp_log' # whatsapp_log
            => SubmissionSucceeded /\ Len(whatsapp_log') = Len(whatsapp_log) + 1
       /\ req'.endpoint \in AdminRoutes => whatsapp_log' = whatsapp_log]_vars

\* with two different entries in the log, an Administrator's delete in the
\* programs panel went through and the two entries are still there
C11_Witness ==
    /\ Len(whatsapp_log) = 2
    /\ whatsapp_log[1].message # whatsapp_log[2].message
    /\ whatsapp_log[1].timestamp < whatsapp_log[2].timestamp
    /\ req.endpoint = "admin_programs"
    /\ resp = Flashed(Redirect("admin_programs"), "programUpdated")
    /\ programs = <<>>

(* ----------------------------------------------------------------------- *)
(* C12: two submissions overlap when both threads load the log before      *)
(* either saves it, so that both loaded the same list.  When the second of *)
(* them saves, the file becomes that thread's list: what both loaded plus  *)
(* its own entry, without the entry the first one saved.  Each of the two  *)
(* still returns success.                                                  *)
(* ----------------------------------------------------------------------- *)
OwnEntry(w) == inflight[w].entries[Len(inflight[w].entries)]

\* v has saved, w has loaded and not yet saved, and neither load saw the
\* other's save
SavedDuringOverlap(v, w) ==
    /\ inflight[v].pc \in {"saved", "returned"}
    /\ inflight[v].entries # <<>>
    /\ inflight[w].pc = "loaded"
    /\ inflight[v].loaded = inflight[w].loaded

C12_LaterWriteWins ==
    [][\A w \in Workers :
         /\ \A v \in Workers \ {w} :
               (SavedDuringOverlap(v, w) /\ inflight'[w].pc = "saved")
               => /\ whatsapp_log' = inflight[w].entries
                  /\ Len(whatsapp_log') = Len(inflight[w].loaded) + 1
                  /\ \A i \in DOMAIN whatsapp_log' : whatsapp_log'[i] # OwnEntry(v)
                  /\ \E i \in DOMAIN whatsapp_log : whatsapp_log[i] = OwnEntry(v)
         /\ (inflight[w].pc = "saved" /\ inflight'[w].pc = "returned")
               => /\ inflight'[w].resp.status = 200
                  /\ inflight'[w].resp.data.success = TRUE]_vars

\* two valid orders loaded the empty log, both were answered success, and the
\* log holds the second thread's entry alone
C12_Witness ==
    /\ \A w \in Workers :
          /\ inflight[w].pc = "returned"
          /\ inflight[w].endpoint = "api_order"
          /\ inflight[w].loaded = <<>>
          /\ inflight[w].resp = Success(settings.cafeNumber)
    /\ inflight[1].message # inflight[2].message
    /\ whatsapp_log = inflight[2].entries
    /\ Len(whatsapp_log) = 1

(* ----------------------------------------------------------------------- *)
(* C13: the seed users have pairwise distinct usernames, and after any     *)
(* sequence of admin_users posts (create, update, delete) and password     *)
(* changes, handled one at a time, no two user records share a username.   *)
(* A create whose username is empty (absent or blank), whose password is   *)
(* empty, or whose trimmed username is already some record's, leaves the   *)
(* users collection as it was.                                             *)
(* ----------------------------------------------------------------------- *)
UniqueUsernames(us) ==
    \A i \in DOMAIN us : \A j \in DOMAIN us : i # j => us[i].username # us[j].username

C13_NameTaken(f) ==
    \E i \in DOMAIN users : IsTrimmed(users[i].username, f.username)

C13_MustReject(f) ==
    /\ Has(f, "action") /\ f.action = <<"create">>
    /\ \/ Blank(f, "username")
       \/ ~Has(f, "password") \/ f.password = <<>>
       \/ C13_NameTaken(f)

C13_UniqueUsernames ==
    /\ [](UniqueUsernames(users))
    /\ [][(req'.endpoint = "admin_users" /\ req'.method = "POST" /\ users' # users)
           => \A f \in UserCreateForms \cup UserForms :
                 C13_MustReject(f)
                 => \A salt \in Salts : ~admin_users("POST", EmptyDict, f, salt)]_vars

\* carol was created, and a second create under her name was turned down
C13_Witness ==
    /\ req.endpoint = "admin_users"
    /\ resp.flash = "userExists"
    /\ Len(users) = 4
    /\ users[4].username = Carol
    /\ UniqueUsernames(users)

====
